---- MODULE Spec2Model ----
(***************************************************************************)
(* The efivarfs backend of libefivar (src/efivarfs.c) as a state machine.  *)
(*                                                                         *)
(* The state is the variable directory (one file per variable key), the    *)
(* candidate files on the boot partition, and the calling process: its     *)
(* errno, its position inside efivarfs_set_variable and the locals of that *)
(* call.  get, size, delete and chmod are one action each; set and append  *)
(* are modelled syscall group by syscall group, because another actor may  *)
(* act on the same path between the read-only open, the write open, the    *)
(* write and the cleanup.                                                  *)
(*                                                                         *)
(* The files are the regular files the code's open/read/write/unlink/ioctl *)
(* calls operate on (efivarfs_probe accepts any directory named by         *)
(* EFIVARFS_PATH), with the Linux immutable inode flag: a file that        *)
(* carries it cannot be opened for writing, written or unlinked.           *)
(***************************************************************************)
EXTENDS Integers, Sequences, FiniteSets, TLC

(* ------------------------------ bounds -------------------------------- *)
\* storage available to one variable file, in bytes: a write that would
\* grow a file beyond it fails with ENOSPC
MaxFileLen == 10
\* width of size_t in the model (the subtraction in get_variable_size wraps
\* modulo 2^SizeBits)
SizeBits == 16
\* number of bytes a short write() transfers
ShortWriteLen == 2

(* ------------------------- program constants -------------------------- *)
NAME_RTSV == "RTStorageVolatile"
NAME_V2F == "VarToFile"
\* an ordinary variable of some other namespace
NAME_VAR == "TestVar"
\* a name of 1025 characters, which has no file
NAME_LONG == "LongName"
EFI_VARIABLE_APPEND_WRITE == 64
MaxNameLen == 1024
FilenameBufLen == 1024
AttrSize == 4
NumEspPaths == 3

Keys == {NAME_VAR, NAME_RTSV, NAME_V2F}
Procs == {1, 2}
EspIdx == 1..NumEspPaths

\* mutant: the path does not depend on the name
make_efivarfs_path_noname(name) == NAME_VAR

\* make_efivarfs_path: the path is the directory followed by name and guid,
\* so the file of a key is named by the key
make_efivarfs_path(name) == name

NameLen(name) == IF name = NAME_LONG THEN MaxNameLen + 1 ELSE Len(name)

(* ------------------------------ inputs -------------------------------- *)
DataVals == {<<1>>, <<2, 0>>}
AttrVals == {7, 7 + EFI_VARIABLE_APPEND_WRITE}
\* the one file name present on the boot partition
EspFileName == <<1>>
\* initial boot partition: per candidate directory, whether the file is there
EspInits == { <<FALSE, FALSE, FALSE>>, <<FALSE, TRUE, TRUE>>, <<TRUE, FALSE, TRUE>> }
StaleEspData == <<9>>

SetModes == {384}
ChmodModes == {0}
\* whether the kernel marks a file created at k immutable at once: it does so
\* for the variables it protects, and the ordinary variable may be one
KernelImm(k) == IF k = NAME_VAR THEN BOOLEAN ELSE {FALSE}
\* errno when a call is entered
EntryErrno == "0"

(* ------------------------------- files -------------------------------- *)
NoFd == -1
NoFile == [ino |-> 0, data |-> <<>>, immutable |-> FALSE, mode |-> 0]
Exists(f) == f.ino # 0
NoEsp == [exists |-> FALSE, data |-> <<>>]

Min(a, b) == IF a < b THEN a ELSE b

HasBit(a, bit) == (a \div bit) % 2 = 1
BitOr(a, bit) == IF HasBit(a, bit) THEN a ELSE a + bit

\* the attribute word as the 4 bytes memcpy puts in the buffer
EncodeAttr(a) ==
  << a % 256, (a \div 256) % 256, (a \div 65536) % 256, (a \div 16777216) % 256 >>

\* the value of a zero-initialised uint32_t after read() put `bytes` in it
DecodeAttr(bytes) ==
  LET b(i) == IF i <= Len(bytes) THEN bytes[i] ELSE 0
  IN b(1) + 256 * b(2) + 65536 * b(3) + 16777216 * b(4)

\* read_file: everything from the descriptor's offset to the end of the file
ReadFile(content, offset) == SubSeq(content, offset + 1, Len(content))

\* a byte buffer read as a C string: the bytes before the first NUL
RECURSIVE CStr(_)
CStr(s) == IF s = <<>> \/ Head(s) = 0 THEN <<>> ELSE <<Head(s)>> \o CStr(Tail(s))

\* write() of buf on a fresh descriptor: at offset 0, or at the end with O_APPEND
WriteBuf(old, buf, append) ==
  IF append THEN old \o buf
  ELSE buf \o SubSeq(old, Len(buf) + 1, Len(old))

VARIABLES
  files,    \* variable key -> the file at its path (NoFile when absent)
  esp,      \* candidate directory -> the file named EspFileName in it
  pc,       \* process -> "idle", a position in set, or "exited"
  loc,      \* process -> the locals (and errno) of the set call in progress
  res       \* process -> the call that returned in the last step and what
            \* the caller sees of it (errno included); NoRes otherwise

vars == <<files, esp, pc, loc, res>>

(* ----------------------------- get, size ------------------------------ *)
\* mutant: the payload is read from the start of the file, header included
efivarfs_get_variable_noskip(fs, k, e) ==
  IF ~Exists(fs[k])
  THEN [ret |-> -1, errno |-> "ENOENT", attr |-> 0, data |-> <<>>, fds |-> 0]
  ELSE LET content == fs[k].data
           hdr == SubSeq(content, 1, Min(AttrSize, Len(content)))
       IN [ret |-> 0, errno |-> e, attr |-> DecodeAttr(hdr),
           data |-> ReadFile(content, 0), fds |-> 0]

\* efivarfs_get_variable; e is errno on entry
efivarfs_get_variable(fs, k, e) ==
  IF ~Exists(fs[k])
  THEN [ret |-> -1, errno |-> "ENOENT", attr |-> 0, data |-> <<>>, fds |-> 0]
  ELSE LET content == fs[k].data
           hdr == SubSeq(content, 1, Min(AttrSize, Len(content)))
           ret_data == ReadFile(content, Len(hdr))
           size == Len(ret_data) + 1
           fd == fs[k].ino
           closed == IF fd >= 0 THEN 1 ELSE 0
       IN [ret |-> 0, errno |-> e, attr |-> DecodeAttr(hdr),
           data |-> SubSeq(ret_data, 1, size - 1), fds |-> 1 - closed]

\* efivarfs_get_variable_size
efivarfs_get_variable_size(fs, k, e) ==
  IF ~Exists(fs[k])
  THEN [ret |-> -1, errno |-> "ENOENT", size |-> 0]
  ELSE [ret |-> 0, errno |-> e,
        size |-> (Len(fs[k].data) - AttrSize) % (2 ^ SizeBits)]

(* -------------------------- persistence sync -------------------------- *)
\* get_esp_filename: [rc, errno, filename]
get_esp_filename(fs, e) ==
  LET g == efivarfs_get_variable(fs, NAME_RTSV, e)
  IN IF g.ret < 0 THEN [rc |-> g.ret, errno |-> g.errno, filename |-> <<>>]
     ELSE IF Len(g.data) > FilenameBufLen
          THEN [rc |-> -1, errno |-> g.errno, filename |-> <<>>]
          ELSE [rc |-> 0, errno |-> g.errno, filename |-> CStr(g.data)]

\* stat() of esp_paths[i] followed by filename; the empty name is the
\* directory itself
StatEsp(es, i, filename) ==
  filename = <<>> \/ (filename = EspFileName /\ es[i].exists)

\* get_esp_filepath: the index of the first candidate that exists, 0 if none
get_esp_filepath(es, filename) ==
  LET hits == {i \in EspIdx : StatEsp(es, i, filename)}
  IN IF hits = {} THEN 0 ELSE CHOOSE i \in hits : \A j \in hits : i <= j

\* mutant: the attribute header is copied too
write_file_noskip(fs, es, e, i, filename, sf) ==
  IF ~Exists(fs[NAME_V2F]) \/ filename = <<>> \/ sf # "ok"
  THEN [esp |-> es, errno |-> "ENOENT", exit |-> FALSE]
  ELSE [esp |-> [es EXCEPT ![i] = [exists |-> TRUE, data |-> fs[NAME_V2F].data]],
        errno |-> e, exit |-> FALSE]

\* write_file; sf is what the boot partition does to this copy:
\* "ok", "fopen" (the destination cannot be opened) or "fwrite" (fwrite
\* writes nothing).  [esp, errno, exit]
write_file(fs, es, e, i, filename, sf) ==
  IF ~Exists(fs[NAME_V2F])
  THEN [esp |-> es, errno |-> "ENOENT", exit |-> FALSE]
  ELSE IF filename = <<>>
  THEN [esp |-> es, errno |-> "EISDIR", exit |-> FALSE]
  ELSE IF sf = "fopen"
  THEN [esp |-> es, errno |-> "EACCES", exit |-> FALSE]
  ELSE LET src == fs[NAME_V2F].data
           truncated == [es EXCEPT ![i] = [exists |-> TRUE, data |-> <<>>]]
       IN IF Len(src) < AttrSize
          THEN [esp |-> truncated, errno |-> e, exit |-> TRUE]
          ELSE IF Len(src) > AttrSize /\ sf = "fwrite"
          THEN [esp |-> truncated, errno |-> "ENOSPC", exit |-> TRUE]
          ELSE [esp |-> [es EXCEPT ![i] = [exists |-> TRUE,
                                            data |-> ReadFile(src, AttrSize)]],
                errno |-> e, exit |-> FALSE]

\* efi_update_var_file: [esp, errno, exit]
efi_update_var_file(fs, es, e, sf) ==
  LET fn == get_esp_filename(fs, e)
      i == get_esp_filepath(es, fn.filename)
  IN IF fn.rc < 0 THEN [esp |-> es, errno |-> fn.errno, exit |-> FALSE]
     ELSE IF i # 0 THEN write_file(fs, es, fn.errno, i, fn.filename, sf)
     ELSE [esp |-> es, errno |-> "ENOENT", exit |-> FALSE]

\* the faults the boot partition can offer to a sync in this state
SyncFaults(fs, es) ==
  LET fn == get_esp_filename(fs, "0")
  IN IF fn.rc = 0 /\ fn.filename # <<>> /\ get_esp_filepath(es, fn.filename) # 0
        /\ Exists(fs[NAME_V2F])
     THEN IF Len(fs[NAME_V2F].data) > AttrSize THEN {"ok", "fopen", "fwrite"}
          ELSE {"ok", "fopen"}
     ELSE {"ok"}

(* --------------------------- immutable flag --------------------------- *)
\* efivarfs_set_fd_immutable on a descriptor of the file at k; canset is
\* whether FS_IOC_SETFLAGS is permitted to this process. [files, rc, errno]
efivarfs_set_fd_immutable(fs, k, e, immutable, canset) ==
  IF fs[k].immutable = immutable THEN [files |-> fs, rc |-> 0, errno |-> e]
  ELSE IF canset
       THEN [files |-> [fs EXCEPT ![k].immutable = immutable], rc |-> 0, errno |-> e]
       ELSE [files |-> fs, rc |-> -1, errno |-> "EPERM"]

\* mutant: the flag is left as it is
efivarfs_set_immutable_noop(fs, k, e, immutable, canset) ==
  [files |-> fs, rc |-> 0, errno |-> e, fds |-> 0]

\* efivarfs_set_immutable(path, immutable). [files, rc, errno, fds]; fds is
\* the number of descriptors opened and not closed
efivarfs_set_immutable(fs, k, e, immutable, canset) ==
  IF ~Exists(fs[k]) THEN [files |-> fs, rc |-> -1, errno |-> "ENOENT", fds |-> 0]
  ELSE LET r == efivarfs_set_fd_immutable(fs, k, e, immutable, canset)
           opened == 1
           closed == 1
       IN [files |-> r.files, rc |-> r.rc, errno |-> r.errno,
           fds |-> opened - closed]

\* mutant: the original flags are reported without the immutable bit
efivarfs_make_fd_mutable_noorig(fs, k, e, canset) ==
  IF ~fs[k].immutable
  THEN [files |-> fs, rc |-> 0, orig |-> FALSE, errno |-> e]
  ELSE IF canset
       THEN [files |-> [fs EXCEPT ![k].immutable = FALSE], rc |-> 0,
             orig |-> FALSE, errno |-> e]
       ELSE [files |-> fs, rc |-> -1, orig |-> FALSE, errno |-> "EPERM"]

\* efivarfs_make_fd_mutable on a descriptor of the file at k.
\* [files, rc, orig, errno]; orig is the immutable bit of *orig_attrs
efivarfs_make_fd_mutable(fs, k, e, canset) ==
  IF ~fs[k].immutable
  THEN [files |-> fs, rc |-> 0, orig |-> FALSE, errno |-> e]
  ELSE IF canset
       THEN [files |-> [fs EXCEPT ![k].immutable = FALSE], rc |-> 0,
             orig |-> TRUE, errno |-> e]
       ELSE [files |-> fs, rc |-> -1, orig |-> TRUE, errno |-> "EPERM"]

\* mutant: the cleanup does not put the flags back
RestoreFlags_skip(fs, k, fd, orig, e) == [files |-> fs, errno |-> e]

\* ioctl(restore_immutable_fd, FS_IOC_SETFLAGS, &orig_attrs) in the cleanup
\* of set: fd is the inode the descriptor refers to, NoFd when it is -1
RestoreFlags(fs, k, fd, orig, e) ==
  IF fd = NoFd THEN [files |-> fs, errno |-> "EBADF"]
  ELSE IF Exists(fs[k]) /\ fs[k].ino = fd
       THEN [files |-> [fs EXCEPT ![k].immutable = orig], errno |-> e]
       ELSE [files |-> fs, errno |-> e]

\* unlink(path); ulok is FALSE when the directory refuses it. [files, rc, errno]
Unlink(fs, k, e, ulok) ==
  IF ~Exists(fs[k]) THEN [files |-> fs, rc |-> -1, errno |-> "ENOENT"]
  ELSE IF fs[k].immutable THEN [files |-> fs, rc |-> -1, errno |-> "EPERM"]
  ELSE IF ~ulok THEN [files |-> fs, rc |-> -1, errno |-> "EACCES"]
  ELSE [files |-> [fs EXCEPT ![k] = NoFile], rc |-> 0, errno |-> e]

(* --------------------------- delete, chmod ---------------------------- *)
\* efivarfs_del_variable. oerr is errno as unlink left it
efivarfs_del_variable(fs, es, e, k, canset, ulok, sf) ==
  LET s == efivarfs_set_immutable(fs, k, e, FALSE, canset)
      u == Unlink(s.files, k, s.errno, ulok)
      y == efi_update_var_file(u.files, es, u.errno, sf)
  IN [files |-> u.files, esp |-> y.esp, ret |-> u.rc, errno |-> y.errno,
      oerr |-> u.errno, exit |-> y.exit, fds |-> s.fds]

\* mutant: the outcome of chmod() is returned
efivarfs_chmod_variable_rc(fs, k, e, mode) ==
  LET c == IF ~Exists(fs[k]) THEN [files |-> fs, rc |-> -1, errno |-> "ENOENT"]
           ELSE IF fs[k].immutable THEN [files |-> fs, rc |-> -1, errno |-> "EPERM"]
           ELSE [files |-> [fs EXCEPT ![k].mode = mode], rc |-> 0, errno |-> e]
  IN [files |-> c.files, ret |-> c.rc, errno |-> c.errno, sysrc |-> c.rc]

\* efivarfs_chmod_variable. sysrc is what chmod() returned
efivarfs_chmod_variable(fs, k, e, mode) ==
  LET c == IF ~Exists(fs[k]) THEN [files |-> fs, rc |-> -1, errno |-> "ENOENT"]
           ELSE IF fs[k].immutable THEN [files |-> fs, rc |-> -1, errno |-> "EPERM"]
           ELSE [files |-> [fs EXCEPT ![k].mode = mode], rc |-> 0, errno |-> e]
  IN [files |-> c.files, ret |-> -1, errno |-> c.errno, sysrc |-> c.rc]

(* ------------------------- results and locals ------------------------- *)
NoPrev == [op |-> "none", key |-> "", ret |-> 0, attr |-> 0, data |-> <<>>,
           existed |-> FALSE, oldLen |-> 0, clean |-> TRUE, pdata |-> <<>>]

\* what is recorded of a call when it returns: its inputs, its return value
\* and errno, its outputs, and what happened inside it
NoRes == [op |-> "none", key |-> "", ret |-> 0, errno |-> "0", oerr |-> "0",
          attr |-> 0, data |-> <<>>, size |-> 0, mode |-> 0,
          existed |-> FALSE, wasImm |-> FALSE, oldLen |-> 0, oldMode |-> 0,
          created |-> FALSE, wrote |-> FALSE, synced |-> FALSE,
          interf |-> "none", snapImm |-> FALSE,
          faulted |-> FALSE, untouched |-> TRUE, espChanged |-> FALSE,
          sysrc |-> 0, pdata |-> <<>>, prev |-> NoPrev,
          wrc |-> -1, fds |-> 0, removedOther |-> FALSE]

NoLoc == [op |-> "none", key |-> "", data |-> <<>>, attr |-> 0, mode |-> 0,
          rfd |-> NoFd, wfd |-> NoFd, restore |-> NoFd, orig |-> FALSE,
          ret |-> -1, errno |-> "0", oerr |-> "0", existed |-> FALSE,
          wasImm |-> FALSE, oldLen |-> 0, wrote |-> FALSE, synced |-> FALSE,
          interf |-> "none", faulted |-> FALSE, snap |-> NoFile,
          espChanged |-> FALSE, pdata |-> <<>>, wrc |-> -1, nopen |-> 0]

Summ(r) == [op |-> r.op, key |-> r.key, ret |-> r.ret, attr |-> r.attr,
            data |-> r.data, existed |-> r.existed, oldLen |-> r.oldLen,
            clean |-> (~r.faulted /\ r.interf = "none"), pdata |-> r.pdata]

\* the call of p that returned in the step before this one, if any
Prev(p) == Summ(res[p])

InFlight(p) == pc[p] \notin {"idle", "exited"}

\* a fresh inode number for a file created at k: none that a descriptor of
\* a call in progress on k still refers to
NewIno(k) ==
  LET held == UNION {{loc[q].rfd, loc[q].wfd} : q \in {r \in Procs : loc[r].key = k}}
  IN CHOOSE n \in 1..(2 * Cardinality(Procs) + 1) :
       n \notin held /\ \A m \in 1..(n - 1) : m \in held

NoReturn == res' = [q \in Procs |-> NoRes]

Return(p, r) == res' = [q \in Procs |-> IF q = p THEN r ELSE NoRes]

\* exit(1) in write_file: the process is gone, and its descriptors with it.
\* What is kept of it is whether a write to the boot-partition file had failed.
Exit(p, sf) ==
  /\ pc' = [pc EXCEPT ![p] = "exited"]
  /\ loc' = [loc EXCEPT ![p] = [NoLoc EXCEPT !.op = "exit",
                                             !.faulted = (sf = "fwrite")]]
  /\ NoReturn

(* ------------------------------ actions ------------------------------- *)
Get(p, k) ==
  /\ pc[p] = "idle"
  /\ LET g == efivarfs_get_variable(files, k, EntryErrno)
     IN Return(p, [NoRes EXCEPT !.op = "get", !.key = k, !.ret = g.ret,
                   !.errno = g.errno, !.oerr = g.errno, !.attr = g.attr,
                   !.data = g.data, !.existed = Exists(files[k]),
                   !.fds = g.fds, !.prev = Prev(p)])
  /\ UNCHANGED <<files, esp, pc, loc>>

Size(p, k) ==
  /\ pc[p] = "idle"
  /\ LET g == efivarfs_get_variable_size(files, k, EntryErrno)
     IN Return(p, [NoRes EXCEPT !.op = "size", !.key = k, !.ret = g.ret,
                   !.errno = g.errno, !.oerr = g.errno, !.size = g.size,
                   !.existed = Exists(files[k]), !.prev = Prev(p)])
  /\ UNCHANGED <<files, esp, pc, loc>>

Chmod(p, name, m) ==
  LET k == make_efivarfs_path(name) IN
  /\ pc[p] = "idle"
  /\ LET c == efivarfs_chmod_variable(files, k, EntryErrno, m)
     IN /\ files' = c.files
        /\ Return(p, [NoRes EXCEPT !.op = "chmod", !.key = k, !.ret = c.ret,
                      !.errno = c.errno, !.oerr = c.errno, !.mode = m,
                      !.sysrc = c.sysrc, !.existed = Exists(files[k]),
                      !.wasImm = files[k].immutable,
                      !.oldMode = files[k].mode])
  /\ UNCHANGED <<esp, pc, loc>>

Del(p, name) ==
  LET k == make_efivarfs_path(name) IN
  /\ pc[p] = "idle"
  /\ \E canset \in (IF files[k].immutable THEN BOOLEAN ELSE {TRUE}) :
     \E ulok \in (IF Exists(files[k]) /\ (~files[k].immutable \/ canset)
                  THEN BOOLEAN ELSE {TRUE}) :
     \E sf \in SyncFaults(efivarfs_del_variable(files, esp, EntryErrno, k,
                                                 canset, ulok, "ok").files, esp) :
       LET d == efivarfs_del_variable(files, esp, EntryErrno, k, canset, ulok, sf)
       IN /\ files' = d.files
          /\ esp' = d.esp
          /\ IF d.exit
             THEN Exit(p, sf)
             ELSE /\ Return(p, [NoRes EXCEPT !.op = "del", !.key = k,
                        !.ret = d.ret, !.errno = d.errno, !.oerr = d.oerr,
                        !.existed = Exists(files[k]),
                        !.wasImm = files[k].immutable,
                        !.faulted = (~canset \/ ~ulok \/ sf # "ok"),
                        !.fds = d.fds,
                        !.espChanged = (d.esp # esp)])
                  /\ UNCHANGED <<pc, loc>>

\* efivarfs_set_variable up to the write open: the length checks, the
\* read-only open, fstat, and the attempt to clear the immutable flag
SetBegin(p, op, name, d, a, m) ==
  LET k == make_efivarfs_path(name) IN
  /\ pc[p] = "idle"
  /\ UNCHANGED esp
  /\ IF NameLen(name) > MaxNameLen
     THEN /\ Return(p, [NoRes EXCEPT !.op = op, !.key = name, !.ret = -1,
                        !.errno = "EINVAL", !.oerr = "EINVAL", !.attr = a,
                        !.data = d, !.mode = m])
          /\ UNCHANGED <<files, pc, loc>>
     ELSE \E canset \in (IF files[k].immutable THEN BOOLEAN ELSE {TRUE}) :
          LET opened == Exists(files[k])
              mm == IF opened
                    THEN efivarfs_make_fd_mutable(files, k, EntryErrno, canset)
                    ELSE [files |-> files, rc |-> -1, orig |-> FALSE,
                          errno |-> "ENOENT"]
              rfd == IF opened THEN files[k].ino ELSE NoFd
              pv == Prev(p)
          IN /\ files' = mm.files
             /\ loc' = [loc EXCEPT ![p] = [NoLoc EXCEPT
                   !.op = op, !.key = k, !.data = d, !.attr = a, !.mode = m,
                   !.rfd = rfd, !.orig = mm.orig, !.errno = mm.errno,
                   !.restore = IF opened /\ mm.rc = 0 /\ mm.orig THEN rfd ELSE NoFd,
                   !.existed = opened, !.wasImm = files[k].immutable,
                   !.oldLen = Len(files[k].data), !.faulted = ~canset,
                   !.nopen = IF opened THEN 1 ELSE 0,
                   !.pdata = IF op = "append" /\ pv.op = "append" /\ pv.key = k
                                /\ pv.ret = 0 /\ pv.clean /\ ~pv.existed
                             THEN <<pv.data>> ELSE <<>>]]
             /\ pc' = [pc EXCEPT ![p] = "open_w"]
             /\ NoReturn

SetStart(p, k, d, a, m) == SetBegin(p, "set", k, d, a, m)

\* efivarfs_append_variable
AppendStart(p, k, d, a) ==
  SetBegin(p, "append", k, d, BitOr(a, EFI_VARIABLE_APPEND_WRITE), 0)

\* mutant: a failing step falls through to the persistence sync
GotoErr_sync(p, l, e) ==
  /\ loc' = [loc EXCEPT ![p] = [l EXCEPT !.errno = e, !.oerr = e]]
  /\ pc' = [pc EXCEPT ![p] = "sync"]

\* a failing step of set: goto err with errno e
GotoErr(p, l, e) ==
  /\ loc' = [loc EXCEPT ![p] = [l EXCEPT !.errno = e, !.oerr = e]]
  /\ pc' = [pc EXCEPT ![p] = "cleanup"]

\* mutant: the device/inode comparison is left out
SameFile_always(rfd_ino, wfd_ino) == TRUE

\* rfd_stat and wfd_stat name the same device and inode
SameFile(rfd_ino, wfd_ino) == rfd_ino = wfd_ino

\* the write open, then either the attempt to make the created file mutable
\* or the device/inode comparison
SetOpenW(p) ==
  /\ pc[p] = "open_w"
  /\ NoReturn
  /\ UNCHANGED esp
  /\ LET l == loc[p]
         k == l.key
     IN IF l.rfd = NoFd
        THEN IF Exists(files[k])
             THEN GotoErr(p, l, "EEXIST") /\ UNCHANGED files
             ELSE \E imm \in KernelImm(k) :
                  \E canset \in (IF imm THEN BOOLEAN ELSE {TRUE}) :
                  LET ino == NewIno(k)
                      made == [files EXCEPT ![k] = [ino |-> ino, data |-> <<>>,
                                  immutable |-> imm, mode |-> l.mode]]
                      mm == efivarfs_make_fd_mutable(made, k, l.errno, canset)
                  IN /\ files' = mm.files
                     /\ loc' = [loc EXCEPT ![p] = [l EXCEPT !.wfd = ino,
                           !.nopen = l.nopen + 1,
                           !.orig = mm.orig, !.errno = mm.errno,
                           !.restore = IF mm.rc = 0 /\ mm.orig THEN ino ELSE NoFd,
                           !.wasImm = imm,
                           !.faulted = l.faulted \/ ~canset]]
                     /\ pc' = [pc EXCEPT ![p] = "write"]
        ELSE /\ UNCHANGED files
             /\ IF ~Exists(files[k]) THEN GotoErr(p, l, "ENOENT")
                ELSE IF files[k].immutable THEN GotoErr(p, l, "EPERM")
                ELSE IF ~SameFile(l.rfd, files[k].ino)
                     THEN GotoErr(p, [l EXCEPT !.wfd = files[k].ino,
                                               !.nopen = l.nopen + 1], "EINVAL")
                     ELSE /\ loc' = [loc EXCEPT ![p].wfd = files[k].ino,
                                                ![p].nopen = l.nopen + 1]
                          /\ pc' = [pc EXCEPT ![p] = "write"]

\* what write(wfd, buf, alloc_size) does to the file the descriptor refers
\* to; w is "ok", "short" or "fail". [files, rc, errno]
SysWrite(fs, k, wfd, buf, append, e, w) ==
  IF ~(Exists(fs[k]) /\ fs[k].ino = wfd)
  THEN [files |-> fs, rc |-> Len(buf), errno |-> e]
  ELSE IF fs[k].immutable THEN [files |-> fs, rc |-> -1, errno |-> "EPERM"]
  ELSE IF w = "fail" THEN [files |-> fs, rc |-> -1, errno |-> "EIO"]
  ELSE LET sent == IF w = "short" THEN SubSeq(buf, 1, ShortWriteLen) ELSE buf
           new == WriteBuf(fs[k].data, sent, append)
       IN IF Len(new) > MaxFileLen
          THEN [files |-> fs, rc |-> -1, errno |-> "ENOSPC"]
          ELSE [files |-> [fs EXCEPT ![k].data = new], rc |-> Len(sent),
                errno |-> e]

\* the outcomes the kernel can give the write of call l: a short write is
\* modelled for the first write to the file the call created
WriteOutcomes(fs, l) ==
  IF Exists(fs[l.key]) /\ fs[l.key].ino = l.wfd /\ ~fs[l.key].immutable
  THEN IF l.rfd = NoFd THEN {"ok", "short", "fail"} ELSE {"ok", "fail"}
  ELSE {"ok"}

\* the buffer of attribute word and data, and the one write of it
SetWrite(p) ==
  /\ pc[p] = "write"
  /\ NoReturn
  /\ UNCHANGED esp
  /\ LET l == loc[p]
         k == l.key
         buf == EncodeAttr(l.attr) \o l.data
     IN \E w \in WriteOutcomes(files, l) :
        LET r == SysWrite(files, k, l.wfd, buf,
                          HasBit(l.attr, EFI_VARIABLE_APPEND_WRITE), l.errno, w)
            l2 == [l EXCEPT !.wrote = TRUE, !.wrc = r.rc,
                            !.faulted = l.faulted \/ w # "ok" \/ r.errno = "ENOSPC"]
        IN /\ files' = r.files
           /\ IF r.rc = -1 THEN GotoErr(p, l2, r.errno)
              ELSE /\ loc' = [loc EXCEPT ![p] = l2]
                   /\ pc' = [pc EXCEPT ![p] = "sync"]

\* efi_update_var_file() after the write, then ret = 0
SetSync(p) ==
  /\ pc[p] = "sync"
  /\ UNCHANGED files
  /\ \E sf \in SyncFaults(files, esp) :
     LET y == efi_update_var_file(files, esp, loc[p].errno, sf)
     IN /\ esp' = y.esp
        /\ IF y.exit THEN Exit(p, sf)
           ELSE /\ loc' = [loc EXCEPT ![p].ret = 0, ![p].synced = TRUE,
                                      ![p].errno = y.errno,
                                      ![p].espChanged = (y.esp # esp),
                                      ![p].faulted = @ \/ sf # "ok"]
                /\ pc' = [pc EXCEPT ![p] = "cleanup"]
                /\ NoReturn

\* mutant: the cleanup unlinks the path whenever the read-only open had
\* failed, whether or not the write open gave a descriptor
SetCleanupCode_nowfd(fs, l, ulok) ==
  LET u == IF l.ret = -1 /\ l.rfd = NoFd
           THEN Unlink(fs, l.key, l.errno, ulok)
           ELSE [files |-> fs, rc |-> 0, errno |-> l.errno]
      r == RestoreFlags(u.files, l.key, l.restore, l.orig, u.errno)
      closed == (IF l.wfd # NoFd THEN 1 ELSE 0) + (IF l.rfd # NoFd THEN 1 ELSE 0)
  IN [files |-> r.files, errno |-> l.errno, fds |-> l.nopen - closed]

\* mutant: the cleanup closes the write descriptor only
SetCleanupCode_norfd(fs, l, ulok) ==
  LET u == IF l.ret = -1 /\ l.rfd = NoFd /\ l.wfd # NoFd
           THEN Unlink(fs, l.key, l.errno, ulok)
           ELSE [files |-> fs, rc |-> 0, errno |-> l.errno]
      r == RestoreFlags(u.files, l.key, l.restore, l.orig, u.errno)
      closed == IF l.wfd # NoFd THEN 1 ELSE 0
  IN [files |-> r.files, errno |-> l.errno, fds |-> l.nopen - closed]

\* the err: block of set. [files, errno, fds]; fds is the number of
\* descriptors the call opened and has not closed
SetCleanupCode(fs, l, ulok) ==
  LET save_errno == l.errno
      u == IF l.ret = -1 /\ l.rfd = NoFd /\ l.wfd # NoFd
           THEN Unlink(fs, l.key, l.errno, ulok)
           ELSE [files |-> fs, rc |-> 0, errno |-> l.errno]
      r == RestoreFlags(u.files, l.key, l.restore, l.orig, u.errno)
      closed == (IF l.wfd # NoFd THEN 1 ELSE 0) + (IF l.rfd # NoFd THEN 1 ELSE 0)
  IN [files |-> r.files, errno |-> save_errno, fds |-> l.nopen - closed]

SetCleanup(p) ==
  /\ pc[p] = "cleanup"
  /\ LET l == loc[p]
         k == l.key
     IN \E ulok \in (IF l.ret = -1 /\ l.rfd = NoFd /\ l.wfd # NoFd
                        /\ Exists(files[k]) /\ ~files[k].immutable
                     THEN BOOLEAN ELSE {TRUE}) :
        LET c == SetCleanupCode(files, l, ulok)
        IN /\ files' = c.files
           /\ Return(p, [NoRes EXCEPT !.op = l.op, !.key = k, !.ret = l.ret,
                 !.errno = c.errno,
                 !.oerr = IF l.ret = -1 THEN l.oerr ELSE c.errno,
                 !.attr = l.attr, !.data = l.data, !.mode = l.mode,
                 !.existed = l.existed, !.wasImm = l.wasImm,
                 !.oldLen = l.oldLen, !.snapImm = l.snap.immutable,
                 !.created = (l.rfd = NoFd /\ l.wfd # NoFd),
                 !.wrote = l.wrote, !.synced = l.synced, !.interf = l.interf,
                 !.faulted = l.faulted \/ ~ulok,
                 !.untouched = (c.files[k] = l.snap),
                 !.espChanged = l.espChanged,
                 !.pdata = l.pdata, !.wrc = l.wrc, !.fds = c.fds,
                 !.removedOther = (/\ Exists(files[k]) /\ files[k].ino # l.wfd
                                   /\ ~Exists(c.files[k]))])
  /\ pc' = [pc EXCEPT ![p] = "idle"]
  /\ loc' = [loc EXCEPT ![p] = NoLoc]
  /\ UNCHANGED esp

(* ---------------------------- other actors ---------------------------- *)
\* what another process or the firmware puts in a file it creates: nothing
\* yet (it is between its create and its write), or a variable
OtherData(k) ==
  IF k = NAME_RTSV
  THEN {<<>>, EncodeAttr(7) \o <<1>>, EncodeAttr(7) \o <<2, 0>>}
  ELSE {<<>>, EncodeAttr(7) \o <<1>>}

\* a call in progress sees its path touched: the first touch between its two
\* opens is remembered by kind, anything else is "other"
Touched(k, kind, f) ==
  /\ loc' = [q \in Procs |->
       IF ~InFlight(q) THEN loc[q]
       ELSE IF loc[q].interf = "none" /\ loc[q].key = k /\ pc[q] = "open_w"
            THEN [loc[q] EXCEPT !.interf = kind, !.snap = f]
            ELSE [loc[q] EXCEPT !.interf = "other"]]
  /\ NoReturn
  /\ UNCHANGED <<esp, pc>>

OtherCreate(k, c, imm) ==
  /\ ~Exists(files[k])
  /\ LET f == [ino |-> NewIno(k), data |-> c, immutable |-> imm, mode |-> 384]
     IN files' = [files EXCEPT ![k] = f] /\ Touched(k, "created", f)

OtherUnlink(k) ==
  /\ Exists(files[k]) /\ ~files[k].immutable
  /\ files' = [files EXCEPT ![k] = NoFile]
  /\ Touched(k, "removed", NoFile)

\* unlink and create in one step (a rename over the path)
OtherReplace(k, c, imm) ==
  /\ Exists(files[k]) /\ ~files[k].immutable
  /\ LET f == [ino |-> NewIno(k), data |-> c, immutable |-> imm, mode |-> 384]
     IN files' = [files EXCEPT ![k] = f] /\ Touched(k, "replaced", f)

(* --------------------------- specifications -------------------------- *)
Callers == {1}

\* the boot partition at the start: the candidate files that exist hold
\* something older than the payload variable
EspOf(e) ==
  [i \in EspIdx |-> IF e[i] THEN [exists |-> TRUE, data |-> StaleEspData] ELSE NoEsp]

FirmwareFile(c) == [ino |-> 1, data |-> c, immutable |-> FALSE, mode |-> 384]

InitProcs ==
  /\ pc = [p \in Procs |-> "idle"]
  /\ loc = [p \in Procs |-> NoLoc]
  /\ res = [p \in Procs |-> NoRes]

\* Spec: every operation on the ordinary variable, with another actor on its
\* path.  The firmware's two variables are either absent (a system without
\* the feature) or name a file of the boot partition and hold a payload.
Init ==
  /\ \/ /\ files = [k \in Keys |-> NoFile]
        /\ esp = EspOf(<<FALSE, FALSE, FALSE>>)
     \/ /\ files = [k \in Keys |->
                     IF k = NAME_VAR THEN NoFile
                     ELSE FirmwareFile(EncodeAttr(7) \o EspFileName)]
        /\ esp = EspOf(<<FALSE, TRUE, TRUE>>)
  /\ InitProcs

Next ==
  \/ \E p \in Callers : Get(p, NAME_VAR)
  \/ \E p \in Callers : Size(p, NAME_VAR)
  \/ \E p \in Callers : Del(p, NAME_VAR)
  \/ \E p \in Callers, m \in ChmodModes : Chmod(p, NAME_VAR, m)
  \/ \E p \in Callers, k \in {NAME_VAR, NAME_LONG}, m \in SetModes :
       \E d \in DataVals, a \in AttrVals : SetStart(p, k, d, a, m)
  \/ \E p \in Callers, d \in DataVals, a \in AttrVals :
       AppendStart(p, NAME_VAR, d, a)
  \/ \E p \in Callers : SetOpenW(p)
  \/ \E p \in Callers : SetWrite(p)
  \/ \E p \in Callers : SetSync(p)
  \/ \E p \in Callers : SetCleanup(p)
  \/ \E c \in OtherData(NAME_VAR), imm \in KernelImm(NAME_VAR) :
       OtherCreate(NAME_VAR, c, imm)
  \/ OtherUnlink(NAME_VAR)
  \/ \E c \in OtherData(NAME_VAR), imm \in KernelImm(NAME_VAR) :
       OtherReplace(NAME_VAR, c, imm)

Spec == Init /\ [][Next]_vars

\* SpecSync: persistence sync.  The firmware creates, replaces and removes its
\* two variables; the caller sets and deletes the ordinary variable and the
\* payload variable.
SyncKeys == {NAME_VAR, NAME_V2F}
SyncData(k) == IF k = NAME_VAR THEN {<<1>>} ELSE {<<2, 0>>}
FirmwareKeys == {NAME_RTSV, NAME_V2F}

InitSync ==
  /\ files = [k \in Keys |-> NoFile]
  /\ \E e \in EspInits : esp = EspOf(e)
  /\ InitProcs

NextSync ==
  \/ \E p \in Callers, k \in SyncKeys : Del(p, k)
  \/ \E p \in Callers, k \in SyncKeys, m \in SetModes :
       \E d \in SyncData(k) : SetStart(p, k, d, 7, m)
  \/ \E p \in Callers : SetOpenW(p)
  \/ \E p \in Callers : SetWrite(p)
  \/ \E p \in Callers : SetSync(p)
  \/ \E p \in Callers : SetCleanup(p)
  \/ \E k \in FirmwareKeys : \E c \in OtherData(k) : OtherCreate(k, c, FALSE)
  \/ \E k \in FirmwareKeys : OtherUnlink(k)
  \/ \E k \in FirmwareKeys : \E c \in OtherData(k) : OtherReplace(k, c, FALSE)

SpecSync == InitSync /\ [][NextSync]_vars

\* SpecKeys: two processes, each working on a key of its own, in every
\* interleaving of their operations and of the steps of their sets.  Both
\* set and delete; the first also appends, the second also changes the mode.
KeyOf(p) == IF p = 1 THEN NAME_VAR ELSE NAME_V2F
KeysData == {<<1>>}
KeysFile == [ino |-> 1, data |-> EncodeAttr(7) \o <<2, 0>>, immutable |-> TRUE,
             mode |-> 384]

InitKeys ==
  /\ \E present \in SUBSET {NAME_VAR, NAME_V2F} :
       files = [k \in Keys |-> IF k \in present THEN KeysFile ELSE NoFile]
  /\ esp = EspOf(<<FALSE, FALSE, FALSE>>)
  /\ InitProcs

NextKeys ==
  \/ \E p \in Procs : Del(p, KeyOf(p))
  \/ \E m \in ChmodModes : Chmod(2, KeyOf(2), m)
  \/ \E p \in Procs, d \in KeysData, m \in SetModes : SetStart(p, KeyOf(p), d, 7, m)
  \/ \E d \in KeysData : AppendStart(1, KeyOf(1), d, 7)
  \/ \E p \in Procs : SetOpenW(p)
  \/ \E p \in Procs : SetWrite(p)
  \/ \E p \in Procs : SetSync(p)
  \/ \E p \in Procs : SetCleanup(p)

SpecKeys == InitKeys /\ [][NextKeys]_vars

\* SpecRace: two processes set and append to the same variable, whose file
\* exists and carries the immutable flag, in every interleaving of the steps
\* of their calls.
RaceData == {<<1>>}
RaceFile == [ino |-> 1, data |-> EncodeAttr(7) \o <<2, 0>>, immutable |-> TRUE,
             mode |-> 384]

InitRace ==
  /\ files = [k \in Keys |-> IF k = NAME_VAR THEN RaceFile ELSE NoFile]
  /\ esp = EspOf(<<FALSE, FALSE, FALSE>>)
  /\ InitProcs

NextRace ==
  \/ \E p \in Procs, d \in RaceData, a \in AttrVals, m \in SetModes :
       SetStart(p, NAME_VAR, d, a, m)
  \/ \E p \in Procs : SetOpenW(p)
  \/ \E p \in Procs : SetWrite(p)
  \/ \E p \in Procs : SetSync(p)
  \/ \E p \in Procs : SetCleanup(p)

SpecRace == InitRace /\ [][NextRace]_vars

(* ------------------------------- claims ------------------------------- *)
\* A call has just returned exactly when res holds it: every other step
\* clears res.  So a formula over res speaks of the state at the return.
SetOps == {"set", "append"}
CleanCall(r) == ~r.faulted /\ r.interf = "none"

C2_RaceAbortEinval ==
  \A p \in Procs :
    LET r == res[p] IN
    (r.op \in SetOps /\ r.interf = "replaced")
    => (r.ret = -1 /\ r.errno = "EINVAL" /\ ~r.wrote /\ r.untouched)

\* C2 (amended): set fails, writes nothing and leaves the replacement as it
\* was; errno is the race error EINVAL when the write open succeeded, and the
\* write open's EPERM when the replacement carries the immutable flag.
C2_RaceAbort ==
  \A p \in Procs :
    LET r == res[p] IN
    (r.op \in SetOps /\ r.interf = "replaced")
    => (/\ r.ret = -1 /\ ~r.wrote /\ r.untouched
        /\ r.errno = (IF r.snapImm THEN "EPERM" ELSE "EINVAL"))

C2_Witness ==
  \E p \in Procs :
    LET r == res[p] IN
    /\ r.op = "set" /\ r.interf = "replaced" /\ ~r.snapImm
    /\ r.ret = -1 /\ r.errno = "EINVAL" /\ Exists(files[r.key])

\* C3: set, append or delete of a variable whose file carries the immutable
\* flag succeeds (no syscall fault, nobody else on the path), and at the
\* return the file set or appended to carries the flag again; after delete
\* there is no file left.
C3_ImmutableTransparent ==
  \A p \in Procs :
    LET r == res[p] IN
    (r.op \in SetOps \cup {"del"} /\ r.wasImm /\ CleanCall(r))
    => (/\ r.ret = 0
        /\ r.op \in SetOps => (Exists(files[r.key]) /\ files[r.key].immutable)
        /\ r.op = "del" => ~Exists(files[r.key]))

C3_Witness ==
  \E p \in Procs :
    LET r == res[p] IN
    /\ r.op = "set" /\ r.existed /\ r.wasImm /\ CleanCall(r)
    /\ r.ret = 0 /\ r.wrote /\ files[r.key].immutable

\* C4: get of a key right after delete of that key fails with ENOENT.
C4_DeleteThenGet ==
  \A p \in Procs :
    LET r == res[p] IN
    (r.op = "get" /\ r.prev.op = "del" /\ r.prev.key = r.key /\ r.prev.clean)
    => (r.ret = -1 /\ r.errno = "ENOENT")

C4_Witness ==
  \E p \in Procs :
    LET r == res[p] IN
    /\ r.op = "get" /\ r.prev.op = "del" /\ r.prev.key = r.key
    /\ r.prev.existed /\ r.prev.ret = 0 /\ r.ret = -1 /\ r.errno = "ENOENT"

\* C5: append(k, d1) on a key without a file, then append(k, d2), both
\* succeeding, then get(k): the data returned is d1 followed by d2.
C5_AppendConcat ==
  \A p \in Procs :
    LET r == res[p] IN
    (r.op = "get" /\ r.prev.op = "append" /\ r.prev.key = r.key
       /\ r.prev.ret = 0 /\ r.prev.clean /\ r.prev.pdata # <<>>)
    => (/\ r.ret = 0
        /\ HasBit(r.attr, EFI_VARIABLE_APPEND_WRITE)
        /\ r.data = r.prev.pdata[1] \o r.prev.data)

\* the file name the file-name variable holds, and the candidate directory
\* whose file of that name is the first to exist (0 if none)
RtsvName == CStr(SubSeq(files[NAME_RTSV].data, AttrSize + 1, Len(files[NAME_RTSV].data)))
ResolvedEsp ==
  IF Exists(files[NAME_RTSV]) /\ RtsvName = EspFileName /\ \E i \in EspIdx : esp[i].exists
  THEN CHOOSE i \in EspIdx : esp[i].exists /\ \A j \in 1..(i - 1) : ~esp[j].exists
  ELSE 0
PayloadTail ==
  SubSeq(files[NAME_V2F].data, AttrSize + 1, Len(files[NAME_V2F].data))

\* C6 (as stated): at the return of every set that returns success (nobody
\* else acting during it), if the file-name variable names an existing file
\* of the boot partition and the payload variable has a file, the
\* boot-partition file holds the payload file's content without its first 4
\* bytes.
C6_MirrorAlways ==
  \A p \in Procs :
    LET r == res[p] IN
    (r.op = "set" /\ r.ret = 0 /\ r.interf = "none"
       /\ ResolvedEsp # 0 /\ Exists(files[NAME_V2F]))
    => esp[ResolvedEsp].data = PayloadTail

\* C6 (amended): the mirroring holds at the return of a successful set none
\* of whose syscalls failed or fell short, the sync's open of the
\* boot-partition file included: set ignores a failed sync and still returns
\* success.
C6_Mirror ==
  \A p \in Procs :
    LET r == res[p] IN
    (r.op = "set" /\ r.ret = 0 /\ CleanCall(r)
       /\ ResolvedEsp # 0 /\ Exists(files[NAME_V2F]))
    => esp[ResolvedEsp].data = PayloadTail

C6_Witness ==
  \E p \in Procs :
    LET r == res[p] IN
    /\ r.op = "set" /\ r.ret = 0 /\ CleanCall(r) /\ r.key = NAME_V2F
    /\ ResolvedEsp = 2 /\ r.espChanged
    /\ esp[2].data = r.data /\ esp[3].data = StaleEspData

\* C7: for every key whose file exists, whatever its length, the size that
\* size(k) returns is the length of the data that get(k) returns.
C7_SizeIsDataLen ==
  \A k \in Keys :
    Exists(files[k])
    => efivarfs_get_variable_size(files, k, EntryErrno).size
         = Len(efivarfs_get_variable(files, k, EntryErrno).data)

\* C8: delete of a key that has no file returns -1 with ENOENT and changes
\* no boot-partition file.
C8_DeleteAbsent ==
  \A p \in Procs :
    LET r == res[p] IN
    (r.op = "del" /\ ~r.existed /\ ~r.faulted)
    => (r.ret = -1 /\ r.errno = "ENOENT" /\ ~r.espChanged)

\* C9: a call that returns failure returns with the errno of the syscall
\* that made it fail.
C9_ErrnoPreserved ==
  \A p \in Procs :
    LET r == res[p] IN
    (r.op \in {"get", "size", "set", "append", "del"} /\ r.ret = -1)
    => r.errno = r.oerr

\* C10: chmod returns -1 whatever chmod() returned, and when chmod()
\* succeeded the file has the mode asked for.
C10_ChmodFails ==
  \A p \in Procs :
    LET r == res[p] IN
    r.op = "chmod"
    => (/\ r.ret = -1
        /\ r.sysrc = 0 => (Exists(files[r.key]) /\ files[r.key].mode = r.mode))

C10_Witness ==
  \E p \in Procs :
    LET r == res[p] IN
    /\ r.op = "chmod" /\ r.sysrc = 0 /\ r.ret = -1
    /\ r.oldMode # r.mode /\ files[r.key].mode = r.mode

\* C11: when the read-only open found no file and another actor creates one
\* before the write open, the write open fails with EEXIST, set returns -1
\* without writing, and the other actor's file is left as it was; when the
\* read-only open succeeded and the file is removed before the write open,
\* set fails with ENOENT and there is no file afterwards.
C11_ExclusiveCreate ==
  \A p \in Procs :
    LET r == res[p] IN
    /\ (r.op \in SetOps /\ r.interf = "created")
       => (/\ r.ret = -1 /\ r.errno = "EEXIST" /\ ~r.wrote /\ ~r.created
           /\ r.untouched /\ Exists(files[r.key]))
    /\ (r.op \in SetOps /\ r.interf = "removed")
       => (/\ r.ret = -1 /\ r.errno = "ENOENT" /\ ~r.wrote /\ ~r.created
           /\ ~Exists(files[r.key]))

C11_Witness ==
  \E p \in Procs :
    LET r == res[p] IN
    /\ r.op = "set" /\ r.interf = "created" /\ ~r.existed
    /\ r.ret = -1 /\ r.errno = "EEXIST"
    /\ Exists(files[r.key]) /\ files[r.key].data # <<>>

\* C12: when set, append or delete returns, having found the immutable flag
\* on the file and nobody else having touched the path, a file that is still
\* there carries the immutable flag, whether the call succeeded or failed.
C12_ImmutableRestored ==
  \A p \in Procs :
    LET r == res[p] IN
    (r.op \in SetOps \cup {"del"} /\ r.wasImm /\ r.interf = "none"
       /\ Exists(files[r.key]))
    => files[r.key].immutable

\* C13: get of a key whose file holds fewer than 4 bytes returns -1 and
\* gives back neither attributes nor data.
C13_ShortReadFails ==
  \A p \in Procs :
    LET r == res[p] IN
    (r.op = "get" /\ r.existed /\ Len(files[r.key].data) < AttrSize)
    => r.ret = -1

\* C14: a set whose one write transferred fewer bytes than the buffer holds
\* (4 + the data length) returns -1, has not run the persistence sync, and
\* has removed the file if this call created it.
C14_ShortWriteFails ==
  \A p \in Procs :
    LET r == res[p] IN
    (r.op \in SetOps /\ r.interf = "none"
       /\ r.wrc >= 0 /\ r.wrc < AttrSize + Len(r.data))
    => (r.ret = -1 /\ ~r.synced /\ (r.created => ~Exists(files[r.key])))

\* C15: the process is terminated by the persistence sync only when a write
\* to the boot-partition file failed; after any other sync failure the call
\* returns, a set that reached the sync with 0 and a delete with the result
\* of its unlink.
C15_SyncPolicy ==
  /\ \A p \in Procs : pc[p] = "exited" => loc[p].faulted
  /\ \A p \in Procs :
       LET r == res[p] IN
       /\ (r.op = "set" /\ r.synced) => r.ret = 0
       /\ (r.op = "del" /\ r.ret = 0) => (r.existed /\ ~Exists(files[r.key]))

\* C16: in set the persistence sync runs after a write that did not fail and
\* before the cleanup, once; a set returns 0 exactly when it ran the sync, and
\* a set that returns -1 has changed no boot-partition file.
C16_SyncOrdering ==
  /\ \A p \in Procs :
       /\ pc[p] = "sync" => (loc[p].wrote /\ loc[p].wrc >= 0 /\ ~loc[p].synced)
       /\ pc[p] \in {"open_w", "write"} => (~loc[p].synced /\ ~loc[p].espChanged)
       /\ pc[p] = "cleanup" => (loc[p].synced <=> loc[p].ret = 0)
  /\ \A p \in Procs :
       LET r == res[p] IN
       r.op \in SetOps
       => (/\ (r.ret = 0) <=> r.synced
           /\ r.synced => (r.wrote /\ r.wrc >= 0)
           /\ r.ret = -1 => ~r.espChanged)

C16_Witness ==
  \E p \in Procs :
    LET r == res[p] IN
    /\ r.op = "set" /\ r.ret = 0 /\ r.synced /\ r.espChanged
    /\ r.wrc = AttrSize + Len(r.data)

\* C17: a step of set, append, delete or chmod on key k leaves the file of
\* every other key as it is: its existence, content, mode and immutable flag.
C17_KeyIndependent ==
  [][ \A p \in Procs, k \in Keys :
        ( \/ Del(p, k)
          \/ \E m \in ChmodModes : Chmod(p, k, m)
          \/ \E d \in KeysData, m \in SetModes : SetStart(p, k, d, 7, m)
          \/ \E d \in KeysData : AppendStart(p, k, d, 7)
          \/ (loc[p].key = k
              /\ (SetOpenW(p) \/ SetWrite(p) \/ SetSync(p) \/ SetCleanup(p))) )
        => \A k2 \in Keys \ {k} : files'[k2] = files[k2] ]_vars

C17_Witness ==
  /\ res[1].op = "del" /\ res[1].key = NAME_VAR /\ res[1].ret = 0
  /\ pc[2] = "sync" /\ loc[2].key = NAME_V2F
  /\ Exists(files[NAME_V2F]) /\ ~Exists(files[NAME_VAR])

\* C18: when get, set, append or delete returns, by success or by any
\* failure path, the call has closed every descriptor it opened, and a
\* process that is in no call holds none.
C18_DescriptorsReleased ==
  \A p \in Procs :
    /\ res[p].op \in {"get", "set", "append", "del"} => res[p].fds = 0
    /\ pc[p] = "idle" => (loc[p].nopen = 0 /\ loc[p].rfd = NoFd /\ loc[p].wfd = NoFd)

C18_Witness ==
  \E p \in Procs :
    LET r == res[p] IN
    /\ r.op = "set" /\ r.existed /\ r.wrote /\ r.wrc = -1 /\ r.ret = -1
    /\ r.fds = 0 /\ pc[p] = "idle"

\* C19: the cleanup of a set that returns -1 removes no file but the one the
\* call itself created: a file that somebody else put at the path is still
\* there when the call returns.
C19_FailedSetKeepsOthers ==
  \A p \in Procs :
    LET r == res[p] IN
    (r.op \in SetOps /\ r.ret = -1) => ~r.removedOther

\* C20: when every one of the set calls that ran concurrently on the
\* variable's immutable file has returned, the file, which is still there,
\* carries the immutable flag.
C20_FlagAfterConcurrentSets ==
  (\A p \in Procs : pc[p] = "idle")
  => (Exists(files[NAME_VAR]) /\ files[NAME_VAR].immutable)

\* a call that found the flag already cleared by the other call returns last
C20_Witness ==
  \E p \in Procs :
    LET r == res[p] IN
    /\ r.op = "set" /\ r.existed /\ ~r.wasImm
    /\ \A q \in Procs : pc[q] = "idle"
    /\ files[NAME_VAR].immutable

====
